---- MODULE Spec2Model ----
(***************************************************************************)
(* State-machine model of the "1234" duel server (src/index.js): the room  *)
(* registry, the per-mode matchmaking queues, the per-socket data and the  *)
(* socket.io event handlers.  One action per inbound event; a handler runs *)
(* to completion before the next event is taken (single-threaded Node).    *)
(* src/unnamed/part_000 is an earlier revision of the same server, without *)
(* queues, socket.data.roomCode and destroyRoom; the model follows         *)
(* src/index.js.                                                           *)
(***************************************************************************)
EXTENDS Integers, Sequences, FiniteSets, TLC

\* ------------------------------------------------------------------ bounds
MaxOrder == 3        \* longest room.order explored (join-room keeps pushing)
MaxHist == 2         \* longest room.history explored
MaxListeners == 2    \* most queue:join listeners counted on one socket

\* ------------------------------------------------------- values and inputs
Sockets == {"s1", "s2"}                  \* socket ids handed out by socket.io
AllCodes == {"K7Q2ZA", "M3X9PB"}         \* results nanoid(6).toUpperCase() can give
OneCode == {"K7Q2ZA"}                    \* the draws of the specification Spec
Modes == {"CLASSIC", "REVEAL_DIGITS", "REVEAL_POSITIONS"}   \* keys of queues
Undefined == "undefined"                 \* JS undefined (absent field)
Null == "null"                           \* JS null (room.winner)
NoSecret == <<>>                         \* JS null in player.secret

\* A string of the scoring engine is a sequence of characters; a character
\* is 0..9 for a digit and NonDigit for any other character.
NonDigit == 10
SecretInputs == {<<1, 2, 3, 4>>, <<1, 2, 3, NonDigit>>}      \* set-secret payloads
GuessInputs == {<<1, 2, 3, 4>>, <<1, 1, 2, 3>>, <<1, 2, 3>>}  \* guess payloads
RoomModeInputs == {Undefined, "reveal_positions"}            \* create-room payloads
QueueModeInputs == {"classic", "REVEAL_DIGITS", "bogus"}     \* queue:join payloads
NameInputs == {Undefined, "  "}
CodeInputs == AllCodes \cup {"k7q2za"}

Range(f) == {f[i] : i \in DOMAIN f}

\* String.prototype.toUpperCase on the strings the inputs contain.
ToUpperCase(str) ==
  CASE str = "classic" -> "CLASSIC"
    [] str = "reveal_positions" -> "REVEAL_POSITIONS"
    [] str = "bogus" -> "BOGUS"
    [] str = "k7q2za" -> "K7Q2ZA"
    [] OTHER -> str

\* String.prototype.trim on the names the inputs contain.
Trim(str) ==
  CASE str = "  " -> ""
    [] str = " Ann " -> "Ann"
    [] OTHER -> str

\* name?.trim() || dflt
NameOr(name, dflt) ==
  IF name = Undefined \/ Trim(name) = "" THEN dflt ELSE Trim(name)

\* (mode || "CLASSIC").toUpperCase()
ModeOf(mode) == ToUpperCase(IF mode = Undefined THEN "CLASSIC" ELSE mode)

\* (code || "").toUpperCase()
CodeOf(code) == ToUpperCase(IF code = Undefined THEN "" ELSE code)

\* /^\d{4}$/.test(str)
IsFourDigits(str) == Len(str) = 4 /\ \A i \in 1..4 : str[i] \in 0..9

\* What a handler sends (acknowledgements, events) is computed in the handler
\* state of destroyRoom and of the queue:join listener as the sequence
\* "emitted"; it is no part of the server's state.

\* ------------------------------------------------------------------- state
VARIABLES
  conn,       \* conn[s]: "none" (id not handed out yet), "live" (in io.sockets.sockets), "gone"
  data,       \* data[s]: socket.data = [roomCode, queueMode, playerName]
  listeners,  \* listeners[s]: number of "queue:join" listeners registered on s
  joined,     \* joined[s]: the socket.io rooms (room codes) s has joined
  rooms,      \* the rooms Map: code -> room
  queues,     \* queues[mode]: FIFO of socket ids
  lastJoins,  \* the queue:join events received since the last other event
  lastOp      \* the branch the last handler run took, where a property names
              \* it, with the code it named, the room as it was before (of
              \* a destroyed room: its players) and what destroyRoom sent

vars == <<conn, data, listeners, joined, rooms, queues, lastJoins, lastOp>>

EmptyData == [roomCode |-> Undefined, queueMode |-> Undefined, playerName |-> Undefined]

\* the last handler run took no branch a property names
NoOp == [tag |-> "other", code |-> Undefined, pre |-> <<>>, sent |-> <<>>]

\* no queue:join event is being tracked
NoJoins == [a |-> Undefined, b |-> Undefined, mode |-> Undefined, idle |-> {}, before |-> {}]

Init ==
  /\ conn = [s \in Sockets |-> "none"]
  /\ data = [s \in Sockets |-> EmptyData]
  /\ listeners = [s \in Sockets |-> 0]
  /\ joined = [s \in Sockets |-> {}]
  /\ rooms = <<>>
  /\ queues = [m \in Modes |-> <<>>]
  /\ lastJoins = NoJoins
  /\ lastOp = NoOp

Live(s) == conn[s] = "live"

\* ----------------------------------------------------------------- helpers
PlayerIds(room) == DOMAIN room.players

\* isInAnyQueue that finds nobody queued
isInAnyQueueNever(qs, id) == FALSE

\* Object.values(queues).some((q) => q.includes(id))
isInAnyQueue(qs, id) == \E m \in DOMAIN qs : id \in Range(qs[m])

\* enqueue(mode, socketId): push unless already included
enqueue(qs, mode, id) ==
  IF id \in Range(qs[mode]) THEN qs ELSE [qs EXCEPT ![mode] = Append(@, id)]

\* dequeue(mode, socketId): filter the id out
dequeue(qs, mode, id) ==
  [qs EXCEPT ![mode] = SelectSeq(@, LAMBDA x : x # id)]

\* popOpponent(mode, exceptId): the first entry that is not exceptId, spliced out
popOpponent(qs, mode, exceptId) ==
  LET q == qs[mode]
      hits == {i \in 1..Len(q) : q[i] # exceptId}
  IN IF hits = {}
       THEN [opp |-> Null, queues |-> qs]
       ELSE LET i == CHOOSE k \in hits : \A j \in hits : k <= j
            IN [opp |-> q[i],
                queues |-> [qs EXCEPT ![mode] =
                              SubSeq(q, 1, i - 1) \o SubSeq(q, i + 1, Len(q))]]

\* makeRoom(mode): a room with no players, stored under the drawn code
NewRoom(code, mode) ==
  [code |-> code, mode |-> mode, players |-> <<>>, order |-> <<>>,
   turnIndex |-> 0, winner |-> Null, history |-> <<>>]

makeRoom(rms, code, mode) ==
  [c \in DOMAIN rms \cup {code} |-> IF c = code THEN NewRoom(code, mode) ELSE rms[c]]

NewPlayer(name) == [name |-> name, secret |-> NoSecret, ready |-> FALSE]

\* room.players[id] = player
PutPlayer(room, id, player) ==
  [room EXCEPT !.players =
     [p \in DOMAIN room.players \cup {id} |->
        IF p = id THEN player ELSE room.players[p]]]

\* the sockets an io.to(code) emit reaches
InRoom(jn, code) == {s \in Sockets : code \in jn[s]}

\* publicRoom(room)
publicRoom(room) ==
  [code |-> room.code,
   mode |-> room.mode,
   players |-> {[id |-> p, name |-> room.players[p].name, ready |-> room.players[p].ready]
                  : p \in DOMAIN room.players},
   currentTurn |-> IF room.turnIndex + 1 \in DOMAIN room.order
                     THEN room.order[room.turnIndex + 1] ELSE Null,
   winner |-> room.winner]

Ack(s, what) == [ev |-> "ack", to |-> {s}, body |-> what]
Emit(ev, to, body) == [ev |-> ev, to |-> to, body |-> body]

\* ------------------------------------------------------------- connection
\* io.on("connection"): a new socket with empty data and the listeners of
\* lines 92-317 other than "queue:join".
Connect(s) ==
  /\ conn[s] = "none"
  /\ conn' = [conn EXCEPT ![s] = "live"]
  /\ lastJoins' = NoJoins
  /\ lastOp' = NoOp
  /\ UNCHANGED <<data, listeners, joined, rooms, queues>>

\* ------------------------------------------------------------ create-room
CreateRoom(s, name, mode, code) ==
  /\ Live(s)
  /\ LET qMode == data[s].queueMode
         room == PutPlayer(NewRoom(code, ModeOf(mode)), s, NewPlayer(NameOr(name, "Player A")))
         room1 == [room EXCEPT !.order = Append(@, s)]
         jn == [joined EXCEPT ![s] = @ \cup {code}]
     IN /\ queues' = IF qMode # Undefined THEN dequeue(queues, qMode, s) ELSE queues
        /\ rooms' = [makeRoom(rooms, code, ModeOf(mode)) EXCEPT ![code] = room1]
        /\ joined' = jn
        /\ data' = [data EXCEPT ![s].queueMode = Undefined, ![s].roomCode = code]
  /\ lastJoins' = NoJoins
  /\ lastOp' = NoOp
  /\ UNCHANGED <<conn, listeners>>

\* -------------------------------------------------------------- join-room
JoinRoom(s, codeIn, name) ==
  /\ Live(s)
  /\ LET qMode == data[s].queueMode
         code == CodeOf(codeIn)
     IN /\ queues' = IF qMode # Undefined THEN dequeue(queues, qMode, s) ELSE queues
        /\ IF code \notin DOMAIN rooms
             THEN /\ data' = [data EXCEPT ![s].queueMode = Undefined]
                  /\ UNCHANGED <<rooms, joined>>
           ELSE IF Cardinality(PlayerIds(rooms[code])) >= 2
             THEN /\ data' = [data EXCEPT ![s].queueMode = Undefined]
                  /\ UNCHANGED <<rooms, joined>>
           ELSE LET room == PutPlayer(rooms[code], s, NewPlayer(NameOr(name, "Player B")))
                    room1 == [room EXCEPT !.order = Append(@, s)]
                    jn == [joined EXCEPT ![s] = @ \cup {code}]
                IN /\ Len(rooms[code].order) < MaxOrder
                   /\ rooms' = [rooms EXCEPT ![code] = room1]
                   /\ joined' = jn
                   /\ data' = [data EXCEPT ![s].queueMode = Undefined, ![s].roomCode = code]
  /\ lastJoins' = NoJoins
  /\ lastOp' = NoOp
  /\ UNCHANGED <<conn, listeners>>

\* ------------------------------------------------------------- set-secret
SetSecret(s, code, secret, rnd) ==
  /\ Live(s)
  /\ IF code \notin DOMAIN rooms \/ s \notin PlayerIds(rooms[code]) \/ ~IsFourDigits(secret)
       THEN UNCHANGED rooms
     ELSE LET room == [rooms[code] EXCEPT !.players[s].secret = secret,
                                          !.players[s].ready = TRUE]
              readyCount == Cardinality({p \in PlayerIds(room) : room.players[p].ready})
              room1 == IF readyCount = 2 /\ Len(room.order) = 2
                         THEN [room EXCEPT !.turnIndex = rnd, !.winner = Null]
                         ELSE room
          IN rooms' = [rooms EXCEPT ![code] = room1]
  /\ lastJoins' = NoJoins
  /\ lastOp' = NoOp
  /\ UNCHANGED <<conn, data, listeners, joined, queues>>

\* ---------------------------------------------------------- scoring engine
RECURSIVE CountUpTo(_, _, _)
CountUpTo(guess, secret, n) ==
  IF n = 0 THEN 0
  ELSE CountUpTo(guess, secret, n - 1) + (IF guess[n] = secret[n] THEN 1 ELSE 0)

\* countCorrectPositions that takes the last position for a hit unseen
countCorrectPositionsFirstThree(guess, secret) == CountUpTo(guess, secret, 3) + 1

countCorrectPositions(guess, secret) == CountUpTo(guess, secret, 4)

\* the Set of guessed characters that occur in the secret, in insertion order
RECURSIVE DigitsUpTo(_, _, _)
DigitsUpTo(guess, secret, n) ==
  IF n = 0 THEN <<>>
  ELSE LET set == DigitsUpTo(guess, secret, n - 1)
       IN IF guess[n] \in Range(secret) /\ guess[n] \notin Range(set)
            THEN Append(set, guess[n]) ELSE set

feedbackDigits(guess, secret) == DigitsUpTo(guess, secret, Len(guess))

\* the per-position marks joined with " "
RECURSIVE MaskUpTo(_, _, _)
MaskUpTo(guess, secret, n) ==
  IF n = 0 THEN <<>>
  ELSE LET mark == IF guess[n] = secret[n] THEN "hit" ELSE "miss"
       IN IF n = 1 THEN <<mark>> ELSE MaskUpTo(guess, secret, n - 1) \o <<" ", mark>>

feedbackMask(guess, secret) == MaskUpTo(guess, secret, Len(guess))

\* ------------------------------------------------------------------- guess
\* room.order.find((id) => id !== socket.id)
FindOpp(order, s) ==
  LET hits == {i \in 1..Len(order) : order[i] # s}
  IN IF hits = {} THEN Undefined ELSE order[CHOOSE k \in hits : \A j \in hits : k <= j]

\* room.order[room.turnIndex % room.order.length]
TurnHolder(room) ==
  IF Len(room.order) = 0 THEN Undefined
  ELSE room.order[(room.turnIndex % Len(room.order)) + 1]

\* InTurn without the turn check of line 160
InTurnAnySender(s, code) ==
  /\ code \in DOMAIN rooms
  /\ rooms[code].winner = Null

\* the guess passes the guards of lines 157-160
InTurn(s, code) ==
  /\ code \in DOMAIN rooms
  /\ rooms[code].winner = Null
  /\ s = TurnHolder(rooms[code])

\* the opponent's committed secret, NoSecret when there is none (line 165-167)
OppSecret(room, s) ==
  LET opp == FindOpp(room.order, s)
  IN IF opp \in PlayerIds(room) THEN room.players[opp].secret ELSE NoSecret

\* the guess reaches line 172
Accepted(s, code, guess) ==
  /\ InTurn(s, code)
  /\ IsFourDigits(guess)
  /\ OppSecret(rooms[code], s) # NoSecret

\* lines 172-177: the GuessRecord (ts left out)
GuessItem(room, s, guess) ==
  LET secret == OppSecret(room, s)
      item == [by |-> s, guess |-> guess,
               correctCount |-> countCorrectPositions(guess, secret)]
  IN IF room.mode = "REVEAL_DIGITS"
       THEN item @@ [feedbackDigits |-> feedbackDigits(guess, secret)]
     ELSE IF room.mode = "REVEAL_POSITIONS"
       THEN item @@ [feedbackMask |-> feedbackMask(guess, secret)]
     ELSE item

\* lines 178-185
ApplyGuess(room, s, guess) ==
  LET item == GuessItem(room, s, guess)
      room1 == [room EXCEPT !.history = Append(@, item)]
  IN IF item.correctCount = 4
       THEN [room1 EXCEPT !.winner = s]
       ELSE [room1 EXCEPT !.turnIndex = (room.turnIndex + 1) % Len(room.order)]

Guess(s, code, guess) ==
  /\ Live(s)
  /\ IF ~Accepted(s, code, guess)
       \* early returns of lines 158, 160, 161-164 and 167-170
       THEN UNCHANGED <<rooms, listeners>>
     ELSE LET room1 == ApplyGuess(rooms[code], s, guess)
          IN /\ Len(rooms[code].history) < MaxHist
             /\ rooms' = [rooms EXCEPT ![code] = room1]
             \* line 191: one more "queue:join" listener on this socket
             \* (listeners beyond MaxListeners are not counted)
             /\ listeners' = [listeners EXCEPT ![s] =
                                IF @ < MaxListeners THEN @ + 1 ELSE @]
  /\ lastJoins' = NoJoins
  /\ lastOp' = IF code \in DOMAIN rooms /\ s # TurnHolder(rooms[code])
                 THEN [tag |-> "guess-out-of-turn", code |-> code, pre |-> rooms[code],
                       sent |-> <<>>]
                 ELSE NoOp
  /\ UNCHANGED <<conn, data, joined, queues>>

\* -------------------------------------------------------------- queue:join
\* One run of the "queue:join" listener (lines 191-245) on the handler state
\* st = [data, queues, rooms, joined, emitted]; code is what nanoid draws if
\* the run reaches makeRoom.
QueueJoinListener(st, s, modeIn, name, code) ==
  LET mode == ModeOf(modeIn)
  IN IF mode \notin DOMAIN st.queues
       THEN [st EXCEPT !.emitted = Append(@, Ack(s, [error |-> "Unknown mode"]))]
     ELSE IF st.data[s].roomCode # Undefined
       THEN [st EXCEPT !.emitted = Append(@, Ack(s, [error |-> "Already in a room"]))]
     ELSE IF isInAnyQueue(st.queues, s)
       THEN [st EXCEPT !.emitted = Append(@, Ack(s, [error |-> "Already queued"]))]
     ELSE
       LET data1 == [st.data EXCEPT ![s].playerName = NameOr(name, "Player"),
                                    ![s].queueMode = mode]
           out1 == st.emitted \o <<Ack(s, [ok |-> TRUE]),
                                   Emit("queue:joined", {s}, [mode |-> mode])>>
           pop == popOpponent(enqueue(st.queues, mode, s), mode, s)
           opponentId == pop.opp
       IN IF opponentId = Null
            THEN [st EXCEPT !.data = data1, !.queues = pop.queues, !.emitted = out1]
          ELSE IF ~Live(opponentId)
            \* opponent vanished: self is dequeued and enqueued again
            THEN [st EXCEPT !.data = data1,
                            !.queues = enqueue(dequeue(pop.queues, mode, s), mode, s),
                            !.emitted = out1]
          ELSE
            LET room == PutPlayer(PutPlayer(NewRoom(code, mode), s,
                                            NewPlayer(data1[s].playerName)),
                                  opponentId,
                                  NewPlayer(IF data1[opponentId].playerName = Undefined
                                              THEN "Player B"
                                              ELSE data1[opponentId].playerName))
                room1 == [room EXCEPT !.order = <<s, opponentId>>]
                jn == [st.joined EXCEPT ![s] = @ \cup {code},
                                        ![opponentId] = @ \cup {code}]
            IN [data |-> [data1 EXCEPT ![s].roomCode = code,
                                       ![opponentId].roomCode = code],
                queues |-> dequeue(pop.queues, mode, s),
                rooms |-> [makeRoom(st.rooms, code, mode) EXCEPT ![code] = room1],
                joined |-> jn,
                emitted |-> out1 \o
                  <<Emit("queue:matched", {s}, [code |-> code, mode |-> mode]),
                    Emit("queue:matched", {opponentId}, [code |-> code, mode |-> mode]),
                    Emit("room-update", InRoom(jn, code), publicRoom(room1))>>]

\* every registered listener runs, in registration order, on the same payload
RECURSIVE RunListeners(_, _, _, _, _, _)
RunListeners(st, n, s, modeIn, name, code) ==
  IF n = 0 THEN st
  ELSE RunListeners(QueueJoinListener(st, s, modeIn, name, code), n - 1, s, modeIn, name, code)

\* the sockets that are in no room and in no queue
Idle == {x \in Sockets :
           /\ Live(x)
           /\ data[x].roomCode = Undefined
           /\ \A c \in DOMAIN rooms : x \notin PlayerIds(rooms[c])
           /\ ~isInAnyQueue(queues, x)}

\* bookkeeping for two queue:join events in a row
TrackJoin(s, mode) ==
  IF /\ lastJoins.a # Undefined
     /\ lastJoins.b = Undefined
     /\ s # lastJoins.a
     /\ s \in lastJoins.idle
     /\ mode = lastJoins.mode
    THEN [lastJoins EXCEPT !.b = s]
  ELSE IF s \in Idle /\ mode \in Modes
    THEN [a |-> s, b |-> Undefined, mode |-> mode, idle |-> Idle, before |-> DOMAIN rooms]
  ELSE NoJoins

QueueJoin(s, modeIn, name, code) ==
  /\ Live(s)
  /\ LET st == RunListeners([data |-> data, queues |-> queues, rooms |-> rooms,
                             joined |-> joined, emitted |-> <<>>],
                            listeners[s], s, modeIn, name, code)
     IN /\ data' = st.data
        /\ queues' = st.queues
        /\ rooms' = st.rooms
        /\ joined' = st.joined
  /\ lastJoins' = TrackJoin(s, ModeOf(modeIn))
  /\ lastOp' = NoOp
  /\ UNCHANGED <<conn, listeners>>

\* ------------------------------------------------------------- queue:leave
QueueLeave(s) ==
  /\ Live(s)
  /\ queues' = IF data[s].queueMode # Undefined
                 THEN dequeue(queues, data[s].queueMode, s) ELSE queues
  /\ data' = [data EXCEPT ![s].queueMode = Undefined]
  /\ lastJoins' = NoJoins
  /\ lastOp' = NoOp
  /\ UNCHANGED <<conn, listeners, joined, rooms>>

\* -------------------------------------------------------------- destroyRoom
\* destroyRoom that emits "room-destroyed" after io.in(code).socketsLeave(code)
destroyRoomLateEmit(st, code, reason) ==
  IF code \notin DOMAIN st.rooms THEN st
  ELSE LET jn == [x \in Sockets |-> st.joined[x] \ {code}]
       IN [data |-> [x \in Sockets |->
                       IF x \in PlayerIds(st.rooms[code]) /\ Live(x)
                         THEN [st.data[x] EXCEPT !.roomCode = Undefined]
                         ELSE st.data[x]],
           rooms |-> [c \in DOMAIN st.rooms \ {code} |-> st.rooms[c]],
           joined |-> jn,
           emitted |-> Append(st.emitted,
                              Emit("room-destroyed", InRoom(jn, code),
                                   [reason |-> reason]))]

\* destroyRoom(code, reason) on st = [data, rooms, joined, emitted]
destroyRoom(st, code, reason) ==
  IF code \notin DOMAIN st.rooms THEN st
  ELSE [data |-> [x \in Sockets |->
                    IF x \in PlayerIds(st.rooms[code]) /\ Live(x)
                      THEN [st.data[x] EXCEPT !.roomCode = Undefined]
                      ELSE st.data[x]],
        rooms |-> [c \in DOMAIN st.rooms \ {code} |-> st.rooms[c]],
        joined |-> [x \in Sockets |-> st.joined[x] \ {code}],
        emitted |-> Append(st.emitted,
                           Emit("room-destroyed", InRoom(st.joined, code),
                                [reason |-> reason]))]

Handler == [data |-> data, rooms |-> rooms, joined |-> joined, emitted |-> <<>>]

\* Object.keys(room.players) of the room destroyRoom deletes
Former(room) == [players |-> [p \in PlayerIds(room) |-> TRUE]]

\* -------------------------------------------------------------- reset-room
\* lines 265-272: the reset of a room that keeps living
resetRoom(room) ==
  [room EXCEPT
     !.players = [p \in DOMAIN room.players |->
                    [room.players[p] EXCEPT !.secret = NoSecret, !.ready = FALSE]],
     !.history = <<>>,
     !.winner = Null,
     !.turnIndex = IF Len(room.order) = 2 THEN (room.turnIndex + 1) % 2 ELSE 0]

\* the destroy path is never taken (the room is reset whatever its size)
FewPlayersNever(room) == FALSE

\* line 260: Object.keys(room.players).length < 2
FewPlayers(room) == Cardinality(PlayerIds(room)) < 2

ResetRoom(s, code) ==
  /\ Live(s)
  /\ IF code \notin DOMAIN rooms
       THEN UNCHANGED <<data, rooms, joined>>
     ELSE IF FewPlayers(rooms[code])
       THEN LET st == destroyRoom(Handler, code, "player-left")
            IN /\ data' = st.data
               /\ rooms' = st.rooms
               /\ joined' = st.joined
     ELSE LET room1 == resetRoom(rooms[code])
          IN /\ rooms' = [rooms EXCEPT ![code] = room1]
             /\ UNCHANGED <<data, joined>>
  /\ lastJoins' = NoJoins
  /\ lastOp' = IF code \in DOMAIN rooms /\ Cardinality(PlayerIds(rooms[code])) < 2
                 THEN [tag |-> "reset-few-players", code |-> code,
                       pre |-> Former(rooms[code]),
                       sent |-> destroyRoom(Handler, code, "player-left").emitted]
                 ELSE NoOp
  /\ UNCHANGED <<conn, listeners, queues>>

\* -------------------------------------------------------------- leave-room
LeaveRoom(s, code) ==
  /\ Live(s)
  /\ LET st == IF code \in DOMAIN rooms /\ s \in PlayerIds(rooms[code])
                 THEN destroyRoom(Handler, code, "player-left")
                 ELSE Handler
     IN /\ data' = st.data
        /\ rooms' = st.rooms
        /\ joined' = st.joined
        /\ lastOp' = IF code \in DOMAIN rooms /\ s \in PlayerIds(rooms[code])
                        THEN [tag |-> "leave-room-destroy", code |-> code,
                              pre |-> Former(rooms[code]), sent |-> st.emitted]
                        ELSE NoOp
  /\ lastJoins' = NoJoins
  /\ UNCHANGED <<conn, listeners, queues>>

\* ------------------------------------------------ disconnecting, disconnect
\* the "disconnecting" listener (lines 302-312), socket.io's own cleanup
\* (the socket leaves its rooms and io.sockets.sockets), then the
\* "disconnect" listener (lines 314-317)
RECURSIVE SweepQueues(_, _, _)
SweepQueues(qs, ms, id) ==
  IF ms = {} THEN qs
  ELSE LET m == CHOOSE x \in ms : TRUE
       IN SweepQueues(dequeue(qs, m, id), ms \ {m}, id)

Disconnect(s) ==
  /\ Live(s)
  /\ LET qMode == data[s].queueMode
         qs1 == IF qMode # Undefined THEN dequeue(queues, qMode, s) ELSE queues
         code == data[s].roomCode
         st == IF code # Undefined /\ code \in DOMAIN rooms
                 THEN destroyRoom(Handler, code, "player-left")
                 ELSE Handler
     IN /\ queues' = SweepQueues(qs1, DOMAIN qs1, s)
        /\ rooms' = st.rooms
        /\ joined' = [st.joined EXCEPT ![s] = {}]
        /\ data' = [st.data EXCEPT ![s] = EmptyData]
        /\ lastOp' = IF code # Undefined /\ code \in DOMAIN rooms
                        THEN [tag |-> "disconnect-destroy", code |-> code,
                              pre |-> Former(rooms[code]), sent |-> st.emitted]
                        ELSE NoOp
  /\ conn' = [conn EXCEPT ![s] = "gone"]
  /\ listeners' = [listeners EXCEPT ![s] = 0]
  /\ lastJoins' = NoJoins

\* Every event, with nanoid drawing from OneCode.
Next ==
  \/ \E s \in Sockets : Connect(s)
  \/ \E s \in Sockets, name \in NameInputs, mode \in RoomModeInputs, code \in OneCode :
       CreateRoom(s, name, mode, code)
  \/ \E s \in Sockets, code \in CodeInputs, name \in NameInputs : JoinRoom(s, code, name)
  \/ \E s \in Sockets, code \in CodeInputs, secret \in SecretInputs, rnd \in {0, 1} :
       SetSecret(s, code, secret, rnd)
  \/ \E s \in Sockets, code \in CodeInputs, guess \in GuessInputs : Guess(s, code, guess)
  \/ \E s \in Sockets, mode \in QueueModeInputs, name \in NameInputs, code \in OneCode :
       QueueJoin(s, mode, name, code)
  \/ \E s \in Sockets : QueueLeave(s)
  \/ \E s \in Sockets, code \in CodeInputs : ResetRoom(s, code)
  \/ \E s \in Sockets, code \in CodeInputs : LeaveRoom(s, code)
  \/ \E s \in Sockets : Disconnect(s)

Spec == Init /\ [][Next]_vars

\* The room lifecycle with nanoid drawing from AllCodes: every event but
\* set-secret and guess.
NextRegistry ==
  \/ \E s \in Sockets : Connect(s)
  \/ \E s \in Sockets, name \in NameInputs, mode \in RoomModeInputs, code \in AllCodes :
       CreateRoom(s, name, mode, code)
  \/ \E s \in Sockets, code \in CodeInputs, name \in NameInputs : JoinRoom(s, code, name)
  \/ \E s \in Sockets, mode \in QueueModeInputs, name \in NameInputs, code \in AllCodes :
       QueueJoin(s, mode, name, code)
  \/ \E s \in Sockets : QueueLeave(s)
  \/ \E s \in Sockets, code \in CodeInputs : ResetRoom(s, code)
  \/ \E s \in Sockets, code \in CodeInputs : LeaveRoom(s, code)
  \/ \E s \in Sockets : Disconnect(s)

SpecRegistry == Init /\ [][NextRegistry]_vars

\* ================================================================ properties
InAnyQueue(x) == isInAnyQueue(queues, x)

C2_OutOfTurnGuessChangesNothing ==
  lastOp.tag = "guess-out-of-turn" =>
    /\ lastOp.code \in DOMAIN rooms
    /\ rooms[lastOp.code].history = lastOp.pre.history
    /\ rooms[lastOp.code].turnIndex = lastOp.pre.turnIndex
    /\ rooms[lastOp.code].winner = lastOp.pre.winner

\* an out-of-turn guess has just been handled in a game with two ready
\* players, a recorded guess and no winner
C2_Witness ==
  /\ lastOp.tag = "guess-out-of-turn"
  /\ lastOp.code \in DOMAIN rooms
  /\ LET room == rooms[lastOp.code]
     IN /\ Cardinality(PlayerIds(room)) = 2
        /\ \A p \in PlayerIds(room) : room.players[p].ready
        /\ room.winner = Null
        /\ Len(room.history) >= 1

\* C3: an accepted guess that scores fewer than 4 passes the turn to the
\* other seat (order[turnIndex] differs before and after); an accepted guess
\* that scores 4 leaves turnIndex unchanged.
C3_GuessAlternatesTurn ==
  [][\A s \in Sockets, code \in CodeInputs, guess \in GuessInputs :
       (Guess(s, code, guess) /\ Accepted(s, code, guess)) =>
         IF countCorrectPositions(guess, OppSecret(rooms[code], s)) < 4
           THEN TurnHolder(rooms'[code]) # TurnHolder(rooms[code])
           ELSE rooms'[code].turnIndex = rooms[code].turnIndex]_vars

\* both seats of the room are taken and both players are ready
BothReady(room) ==
  /\ Cardinality(PlayerIds(room)) = 2
  /\ \A p \in PlayerIds(room) : room.players[p].ready

\* C4: once both players of a session have committed a secret, turnIndex is
\* in {0,1}, and a further set-secret by either player leaves turnIndex
\* unchanged.
C4_RecommitKeepsTurn ==
  [][/\ \A c \in DOMAIN rooms : BothReady(rooms[c]) => rooms[c].turnIndex \in {0, 1}
     /\ \A s \in Sockets, code \in CodeInputs, secret \in SecretInputs, rnd \in {0, 1} :
          (/\ SetSecret(s, code, secret, rnd)
           /\ code \in DOMAIN rooms
           /\ BothReady(rooms[code]))
            => rooms'[code].turnIndex = rooms[code].turnIndex]_vars

\* C5: in every live session, winner is set if and only if the history holds
\* a GuessRecord with correctCount 4.
C5_WinnerIffWinningRecord ==
  \A c \in DOMAIN rooms :
    (rooms[c].winner # Null) <=>
      (\E i \in DOMAIN rooms[c].history : rooms[c].history[i].correctCount = 4)

\* C6: in every live session, order has at most 2 entries, no entry twice,
\* and exactly the keys of players as its entries.
C6_OrderMatchesPlayers ==
  \A c \in DOMAIN rooms :
    LET order == rooms[c].order
    IN /\ Len(order) <= 2
       /\ \A i, j \in DOMAIN order : order[i] = order[j] => i = j
       /\ Range(order) = PlayerIds(rooms[c])

\* C7: a reset-room on a session with 2 players keeps the session live with
\* empty history, no winner, both players not ready and without secret, and
\* a turnIndex different from the one before the reset.
C7_ResetFlipsTurn ==
  [][\A s \in Sockets, code \in CodeInputs :
       (/\ ResetRoom(s, code)
        /\ code \in DOMAIN rooms
        /\ Cardinality(PlayerIds(rooms[code])) = 2)
         => /\ code \in DOMAIN rooms'
            /\ rooms'[code].history = <<>>
            /\ rooms'[code].winner = Null
            /\ \A p \in PlayerIds(rooms'[code]) :
                 /\ ~rooms'[code].players[p].ready
                 /\ rooms'[code].players[p].secret = NoSecret
            /\ rooms'[code].turnIndex # rooms[code].turnIndex]_vars

\* C8: a reset-room on a live session with fewer than 2 players removes the
\* session from the registry: a lookup by its code finds no session.
C8_ResetOfLoneRoomDestroys ==
  lastOp.tag = "reset-few-players" => lastOp.code \notin DOMAIN rooms

\* a reset-room has just been handled for a room that had one player, whose
\* roomCode named that room, and the room is gone
C8_Witness ==
  /\ lastOp.tag = "reset-few-players"
  /\ Cardinality(PlayerIds(lastOp.pre)) = 1
  /\ lastOp.code \notin DOMAIN rooms
  /\ \A p \in PlayerIds(lastOp.pre) : Live(p) /\ data[p].roomCode = Undefined

\* C9: for every live connection at most one of roomCode and queueMode is set.
C9_RoomCodeXorQueueMode ==
  \A s \in Sockets :
    Live(s) => ~(data[s].roomCode # Undefined /\ data[s].queueMode # Undefined)

\* C10: after a connection disconnects, no mode's queue contains it and no
\* live session has it as a player.
C10_GoneLeavesNoTrace ==
  \A s \in Sockets :
    conn[s] = "gone" =>
      /\ ~InAnyQueue(s)
      /\ \A c \in DOMAIN rooms : s \notin PlayerIds(rooms[c])

\* C11: creating a session (by create-room or by a matchmaking pairing) never
\* replaces or removes a live session: every session that was live before the
\* event is still live afterwards, in the same state, whatever code the
\* generator draws.
C11_CreateKeepsLiveSessions ==
  [][\A s \in Sockets, name \in NameInputs, code \in OneCode :
       (\/ \E mode \in RoomModeInputs : CreateRoom(s, name, mode, code)
        \/ \E mode \in QueueModeInputs : QueueJoin(s, mode, name, code))
         => \A c \in DOMAIN rooms : c \in DOMAIN rooms' /\ rooms'[c] = rooms[c]]_vars

\* the registry, the queues and every connection's roomCode and queueMode are
\* the same after the step as before it
SameRegistryAndQueues ==
  /\ rooms' = rooms
  /\ queues' = queues
  /\ \A x \in Sockets : /\ data'[x].roomCode = data[x].roomCode
                        /\ data'[x].queueMode = data[x].queueMode

ScoreStrings == {<<a, b, c, d>> : a, b, c, d \in {1, 2}}

\* A game in which both players have joined K7Q2ZA and committed a secret
\* (create-room, join-room, set-secret twice): s1's secret is 1221, s2's is
\* any of ScoreStrings, and the random draw of line 149 gave s1 the turn.
InitScore ==
  /\ conn = [s \in Sockets |-> "live"]
  /\ data = [s \in Sockets |-> [EmptyData EXCEPT !.roomCode = "K7Q2ZA"]]
  /\ listeners = [s \in Sockets |-> 0]
  /\ joined = [s \in Sockets |-> {"K7Q2ZA"}]
  /\ \E secret \in ScoreStrings :
       rooms = [c \in OneCode |->
                  [NewRoom(c, "CLASSIC") EXCEPT
                     !.players = [s \in Sockets |->
                                    [name |-> IF s = "s1" THEN "Player A" ELSE "Player B",
                                     secret |-> IF s = "s1" THEN <<1, 2, 2, 1>> ELSE secret,
                                     ready |-> TRUE]],
                     !.order = <<"s1", "s2">>,
                     !.turnIndex = 0]]
  /\ queues = [m \in Modes |-> <<>>]
  /\ lastJoins = NoJoins
  /\ lastOp = NoOp

\* the guess events of that game
NextScore ==
  \E s \in Sockets, code \in OneCode, guess \in ScoreStrings : Guess(s, code, guess)

SpecScore == InitScore /\ [][NextScore]_vars

\* C13: for every pair of 4-digit strings, countCorrectPositions(guess,
\* secret) is 4 exactly when guess equals secret; and so an accepted guess
\* sets winner exactly when it equals the opponent's committed secret (the
\* winner being the guesser).
C13_FourIffEqual ==
  \A c \in DOMAIN rooms :
    LET room == rooms[c]
    IN /\ \A p \in PlayerIds(room), guess \in ScoreStrings :
            (countCorrectPositions(guess, room.players[p].secret) = 4)
              <=> (guess = room.players[p].secret)
       /\ \A i \in DOMAIN room.history :
            (room.history[i].guess = OppSecret(room, room.history[i].by))
              <=> (i = Len(room.history) /\ room.winner = room.history[i].by)

\* s1 has missed s2's secret in one position only, and s2 has then guessed
\* s1's secret and won
C13_Witness ==
  /\ "K7Q2ZA" \in DOMAIN rooms
  /\ LET room == rooms["K7Q2ZA"]
     IN /\ room.winner = "s2"
        /\ Len(room.history) = 2
        /\ room.history[1].by = "s1"
        /\ room.history[1].correctCount = 3
        /\ room.history[2].guess = room.players["s1"].secret

\* the session is Active: two players, both have committed a secret, no winner
Active(room) ==
  /\ Cardinality(PlayerIds(room)) = 2
  /\ \A p \in PlayerIds(room) : room.players[p].secret # NoSecret
  /\ room.winner = Null

\* C14: a guess changes a session's state only when the session is Active;
\* a guess sent while only the opponent has committed a secret is not
\* recorded.
C14_GuessOnlyWhenActive ==
  [][\A s \in Sockets, code \in CodeInputs, guess \in GuessInputs :
       (/\ Guess(s, code, guess)
        /\ code \in DOMAIN rooms
        /\ ~Active(rooms[code]))
         => rooms' = rooms]_vars

\* every queued id is the id of a live socket: the disconnecting and
\* disconnect listeners (lines 302-317) take a socket out of every queue in
\* the step in which it leaves io.sockets.sockets, so popOpponent never
\* returns an id for which line 214 finds no socket
QueuedAreLive ==
  \A m \in Modes : \A i \in DOMAIN queues[m] : Live(queues[m][i])

\* C16: the session produced by a matchmaking pairing of the joining
\* connection J with the queued connection O is in the state that J's
\* create-room followed by O's join-room produces: players J and O, order
\* <<J, O>>, both without secret and not ready, turnIndex 0, no winner, empty
\* history, both connections' roomCode set to the session's code, and no
\* queue membership recorded for either (in no queue, queueMode unset).
C16_PairingAsCreateThenJoin ==
  [][\A s \in Sockets, mode \in QueueModeInputs, name \in NameInputs, code \in OneCode :
       (QueueJoin(s, mode, name, code) /\ rooms' # rooms)
         => \E o \in Sockets \ {s} :
              /\ o \in Range(queues[ModeOf(mode)])
              /\ code \in DOMAIN rooms'
              /\ PlayerIds(rooms'[code]) = {s, o}
              /\ rooms'[code].order = <<s, o>>
              /\ \A p \in {s, o} : /\ rooms'[code].players[p].secret = NoSecret
                                   /\ ~rooms'[code].players[p].ready
              /\ rooms'[code].turnIndex = 0
              /\ rooms'[code].winner = Null
              /\ rooms'[code].history = <<>>
              /\ \A p \in {s, o} : /\ data'[p].roomCode = code
                                   /\ ~isInAnyQueue(queues', p)
                                   /\ data'[p].queueMode = Undefined]_vars

\* the last event destroyed a session
Destroyed == lastOp.tag \in {"reset-few-players", "leave-room-destroy", "disconnect-destroy"}

\* C17: when a session is destroyed (leave-room by a member, disconnect of a
\* member, reset-room with fewer than 2 players), "room-destroyed" with its
\* reason is emitted to the session's connections before their membership is
\* removed and before the session is deleted (so it reaches every player
\* that is still connected), and afterwards the session is gone, no
\* connection is a member of its channel and every former player's roomCode
\* is cleared; destroying a code that is not live changes nothing.
C17_DestroyNotifiesThenClears ==
  /\ Destroyed =>
       /\ Len(lastOp.sent) = 1
       /\ lastOp.sent[1].ev = "room-destroyed"
       /\ lastOp.sent[1].body = [reason |-> "player-left"]
       /\ \A p \in PlayerIds(lastOp.pre) : Live(p) => p \in lastOp.sent[1].to
       /\ lastOp.code \notin DOMAIN rooms
       /\ InRoom(joined, lastOp.code) = {}
       /\ \A p \in PlayerIds(lastOp.pre) : data[p].roomCode = Undefined
  /\ \A code \in CodeInputs \ DOMAIN rooms :
       destroyRoom(Handler, code, "player-left") = Handler

\* a member has just left a session of two connected players: both were
\* notified, the session is gone and the other player's roomCode is cleared
C17_Witness ==
  /\ lastOp.tag = "leave-room-destroy"
  /\ PlayerIds(lastOp.pre) = Sockets
  /\ \A p \in Sockets : Live(p) /\ p \in lastOp.sent[1].to /\ data[p].roomCode = Undefined
  /\ lastOp.code \notin DOMAIN rooms

\* the places <<mode, index>> at which s stands in a queue
QueuePlaces(s) ==
  {pl \in Modes \X (1..Cardinality(Sockets) + 1) :
     pl[2] \in DOMAIN queues[pl[1]] /\ queues[pl[1]][pl[2]] = s}

\* C18: each connection id occurs at most once across all mode queues
\* together, after any sequence of queue:join, queue:leave, create-room,
\* join-room and disconnect events.
C18_QueuedAtMostOnce ==
  /\ \A m \in Modes : Len(queues[m]) <= Cardinality(Sockets)
  /\ \A s \in Sockets : Cardinality(QueuePlaces(s)) <= 1

\* both connections are queued (in different modes, or they would have
\* been paired), and one of them has two queue:join listeners
C18_Witness ==
  /\ \A s \in Sockets : Cardinality(QueuePlaces(s)) = 1
  /\ \E s \in Sockets : listeners[s] = 2

\* the live sessions s is a player of
SessionsOf(s) == {c \in DOMAIN rooms : s \in PlayerIds(rooms[c])}

\* C19: each live connection is a player of at most one live session, and
\* its roomCode is set to a code exactly when it is a player of the live
\* session with that code.
C19_RoomCodeIsMembership ==
  \A s \in Sockets :
    Live(s) =>
      /\ Cardinality(SessionsOf(s)) <= 1
      /\ \A c \in AllCodes : (data[s].roomCode = c) <=> (c \in SessionsOf(s))
      /\ data[s].roomCode \in AllCodes \cup {Undefined}

\* C20: a reset-room naming a live session, sent by a connection that is not
\* a player of that session, leaves the session (secrets, readiness, history,
\* winner, turnIndex) and the registry unchanged.
C20_ResetByOutsiderChangesNothing ==
  [][\A s \in Sockets, code \in CodeInputs :
       (/\ ResetRoom(s, code)
        /\ code \in DOMAIN rooms
        /\ s \notin PlayerIds(rooms[code]))
         => rooms' = rooms]_vars
====
